---------------------------- MODULE Spec2Model ----------------------------
(***************************************************************************)
(* A model of news_automator.py: the news fetcher, the summarizer, the     *)
(* digest builder, the email renderer, the mail sender and the scheduler   *)
(* loop.                                                                   *)
(*                                                                         *)
(* Strings whose length matters (titles, descriptions) are run-length      *)
(* encoded: a text is a sequence of runs [ch, n], n >= 1, where ch is "w"  *)
(* (a non-space character), "s" (a whitespace character), "." (a dot of    *)
(* the ellipsis marker) or "R" (a character of the placeholder title       *)
(* '[Removed]').  Adjacent runs have different ch.  Strings of which only  *)
(* the identity matters (URLs, source names) are TLA+ strings.             *)
(*                                                                         *)
(* A field of a JSON object is a record [tag, val]: tag "missing" (key     *)
(* absent), "null" (JSON null), or "str" / "obj" (a value).                *)
(***************************************************************************)
EXTENDS Integers, Sequences, FiniteSets, TLC

VARIABLES
    \* ---- the pipeline (NewsAutomator.run, --run-now mode)
    pc,           \* position of the process inside main / run / send
    cat,          \* index in TopicOrder of the category being fetched
    qi,           \* index of the next query of that category
    all_articles, \* fetch_all_news: articles accumulated for the category
    unique_articles, \* fetch_all_news: what the deduplication kept of them
    news_data,    \* fetch_all_news: the digest built so far (sequence of
                  \* [key, items], in insertion order)
    requests,     \* number of HTTP GETs issued by search_news
    hits,         \* number of queries that were answered with articles
    failed,       \* some search_news call failed (and returned [])
    email,        \* what create_email rendered
    subjectN,     \* the N of "(N updates)" in the subject line
    openConns,    \* SMTP connections currently open
    connsOpened,  \* SMTP connections opened by the current send call
    delivered,    \* send_message went through
    result,       \* what run returned: "none", "true", "false", "raised"
    \* ---- the summarizer applied to one raw article
    article,      \* the raw article record
    summary,      \* create_summary(article)
    spc,          \* "input" before, "done" after
    \* ---- the scheduler loop
    schedule_time,\* trigger time of day (in polls since midnight)
    now,          \* the clock: [day, tod]
    next_run,     \* the job's next_run: [day, tod]
    lpc,          \* position of the scheduler loop
    invocations,  \* number of times the job invoked run
    crossings,    \* number of times the clock reached the trigger time
    last_result,  \* what the last run returned
    prev_result,  \* what the run before it returned
    last_total,   \* the digest total of the last run (-1: no digest)
    last_mail     \* what the SMTP server did in the last run

vars == <<pc, cat, qi, all_articles, unique_articles, news_data, requests, hits, failed,
          email, subjectN, openConns, connsOpened, delivered, result,
          article, summary, spc,
          schedule_time, now, next_run, lpc, invocations, crossings,
          last_result, prev_result, last_total, last_mail>>

pipeVars == <<pc, cat, qi, all_articles, unique_articles, news_data, requests, hits, failed,
              email, subjectN, openConns, connsOpened, delivered, result>>
sumVars == <<article, summary, spc>>
schedVars == <<schedule_time, now, next_run, lpc, invocations, crossings,
               last_result, prev_result, last_total, last_mail>>

---------------------------------------------------------------------------
(* Sequences *)

Take(s, n) == SubSeq(s, 1, IF Len(s) < n THEN Len(s) ELSE n)

RECURSIVE SeqsUpTo(_, _)
SeqsUpTo(S, n) ==
    IF n = 0 THEN {<<>>}
    ELSE LET prev == SeqsUpTo(S, n - 1)
         IN  prev \cup {Append(s, x) : s \in {p \in prev : Len(p) = n - 1}, x \in S}

---------------------------------------------------------------------------
(* Python strings, run-length encoded *)

Run(c, k) == [ch |-> c, n |-> k]

RECURSIVE TextLen(_)
TextLen(t) == IF t = <<>> THEN 0 ELSE Head(t).n + TextLen(Tail(t))

\* t[:k]
RECURSIVE Slice(_, _)
Slice(t, k) ==
    IF t = <<>> \/ k <= 0 THEN <<>>
    ELSE IF Head(t).n <= k
         THEN <<Head(t)>> \o Slice(Tail(t), k - Head(t).n)
         ELSE <<Run(Head(t).ch, k)>>

\* t.split(): the words of t, separated by whitespace runs
RECURSIVE SplitFrom(_, _)
SplitFrom(t, word) ==
    IF t = <<>> THEN (IF word = <<>> THEN <<>> ELSE <<word>>)
    ELSE IF Head(t).ch = "s"
         THEN (IF word = <<>> THEN <<>> ELSE <<word>>) \o SplitFrom(Tail(t), <<>>)
         ELSE SplitFrom(Tail(t), Append(word, Head(t)))

Split(t) == SplitFrom(t, <<>>)

\* ' '.join(words)
RECURSIVE Join(_)
Join(words) ==
    IF words = <<>> THEN <<>>
    ELSE IF Len(words) = 1 THEN Head(words)
         ELSE Head(words) \o <<Run("s", 1)>> \o Join(Tail(words))

LastSpace(t) ==
    LET idx == {i \in 1..Len(t) : t[i].ch = "s"}
    IN  IF idx = {} THEN 0 ELSE CHOOSE i \in idx : \A j \in idx : j <= i

\* t.rsplit(' ', 1)[0]: what precedes the last space, or t when it has none
RSplitHead(t) ==
    LET i == LastSpace(t)
    IN  IF i = 0 THEN t
        ELSE SubSeq(t, 1, i - 1)
             \o (IF t[i].n > 1 THEN <<Run("s", t[i].n - 1)>> ELSE <<>>)

Ellipsis == <<Run(".", 3)>>

\* "No details available", "No Title", '[Removed]'
NoDetails == <<Run("w", 2), Run("s", 1), Run("w", 7), Run("s", 1), Run("w", 9)>>
NoTitle == <<Run("w", 2), Run("s", 1), Run("w", 5)>>
Removed == <<Run("R", 9)>>

---------------------------------------------------------------------------
(* JSON fields *)

Missing == [tag |-> "missing", val |-> <<>>]
Null == [tag |-> "null", val |-> <<>>]
Str(v) == [tag |-> "str", val |-> v]
\* a URL or a source name: identity only
MissingId == [tag |-> "missing", val |-> ""]
NullId == [tag |-> "null", val |-> ""]
\* the source object {"name": ...}
MissingSrc == [tag |-> "missing", name |-> MissingId]
NullSrc == [tag |-> "null", name |-> MissingId]
Obj(nm) == [tag |-> "obj", name |-> nm]

\* d.get(key, default)
Get(field, default) == IF field.tag = "missing" THEN default ELSE field

\* Python truth of a str-or-None value
Truthy(field) == field.tag = "str" /\ field.val # <<>>
TruthyId(field) == field.tag = "str" /\ field.val # ""

---------------------------------------------------------------------------
(* NewsSummarizer *)

TitleMaxLen == 100
SummaryMaxLen == 150

\* the slice to max_len left out
clean_text_unsliced(text, max_len) ==
    IF ~Truthy(text) THEN NoDetails
    ELSE LET t == Join(Split(text.val))
         IN  IF TextLen(t) < max_len THEN t ELSE RSplitHead(t) \o Ellipsis

clean_text(text, max_len) ==
    IF ~Truthy(text) THEN NoDetails
    ELSE LET t == Slice(Join(Split(text.val)), max_len)
         IN  IF TextLen(t) < max_len THEN t ELSE RSplitHead(t) \o Ellipsis

Unknown == Str("Unknown")

\* article.get('source', {}).get('name', 'Unknown'); None.get raises
SourceRaises(a) == a.source.tag = "null"
SourceName(a) ==
    IF a.source.tag = "missing" THEN Unknown ELSE Get(a.source.name, Unknown)

\* article.get('title', 'No Title')[:100]; None[:100] raises
TitleRaises(a) == a.title.tag = "null"
TitleOf(a) == Slice(Get(a.title, Str(NoTitle)).val, TitleMaxLen)

Raised == [raised |-> TRUE, title |-> <<>>, summary |-> <<>>,
           source |-> NullId, url |-> NullId]

create_summary(a) ==
    IF TitleRaises(a) \/ SourceRaises(a) THEN Raised
    ELSE [raised  |-> FALSE,
          title   |-> TitleOf(a),
          summary |-> clean_text(Get(a.description, Str(<<>>)), SummaryMaxLen),
          source  |-> SourceName(a),
          url     |-> Get(a.url, Str(""))]

---------------------------------------------------------------------------
(* NewsFetcher.search_news: what it makes of one HTTP exchange *)

MaxReturned == 6

\* a.get('title') and a['title'] != '[Removed]'
PassesFilter(a) == Truthy(a.title) /\ a.title.val # Removed

Keep(as) == SelectSeq(as, PassesFilter)

\* The outcomes of session.get + response.json() + the inspection of data:
\*   "transport"  the connection fails            (raises in session.get)
\*   "timeout"    no answer within 30 s           (raises in session.get)
\*   "badjson"    the body is no JSON             (raises in response.json)
\*   "badshape"   the JSON is no object, or its articles are no list of
\*                objects                         (raises in the try block)
\*   "notok"      status is not 'ok'
\*   "ok"         status 'ok' with a list of article objects
FailureKinds == {"transport", "timeout", "badjson", "badshape"}

search_news(outcome) ==
    IF outcome.kind = "ok" THEN Take(Keep(outcome.articles), MaxReturned)
    ELSE <<>>

---------------------------------------------------------------------------
(* The summarizer applied to one raw article *)

MaxRuns == 3
MaxTitleLen == 101

RunLens == {1, 2, SummaryMaxLen - 2, SummaryMaxLen - 1, SummaryMaxLen,
            SummaryMaxLen + 1}

\* the run-length encoded strings of at most MaxRuns runs
Canonical(t) == \A i \in 1..(Len(t) - 1) : t[i].ch # t[i + 1].ch
Texts ==
    {t \in SeqsUpTo({Run(c, k) : c \in {"w", "s"}, k \in RunLens}, MaxRuns) :
        Canonical(t)}

Titles ==
    {Missing, Null, Str(<<>>), Str(Removed), Str(<<Run("w", 1)>>),
     Str(<<Run("w", TitleMaxLen)>>), Str(<<Run("w", MaxTitleLen)>>),
     Str(<<Run("w", 60), Run("s", 1), Run("w", 60)>>)}
Descriptions == {Missing, Null} \cup {Str(t) : t \in Texts}
Sources == {MissingSrc, NullSrc, Obj(MissingId), Obj(NullId), Obj(Str("BBC"))}
Urls == {MissingId, NullId, Str("https://a/1")}

RawArticles == [title : Titles, description : Descriptions,
                source : Sources, url : Urls]

NoSummary == [raised |-> FALSE, title |-> <<>>, summary |-> <<>>,
              source |-> MissingId, url |-> MissingId]

Summarize ==
    /\ spc = "input"
    /\ summary' = create_summary(article)
    /\ spc' = "done"
    /\ UNCHANGED <<article, pipeVars, schedVars>>

---------------------------------------------------------------------------
(* NewsAutomator.TOPICS and the digest builder *)

TopicOrder == <<"national", "international", "economy", "technology",
                "science", "health", "education", "environment">>

TOPICS ==
    [national      |-> <<"India government scheme", "Parliament law India",
                         "Supreme Court India judgment", "NEP education India">>,
     international |-> <<"global news India", "India foreign relations",
                         "UN WHO India">>,
     economy       |-> <<"India economy", "RBI inflation India",
                         "stock market India", "company news India",
                         "budget India">>,
     technology    |-> <<"AI technology India", "ISRO mission",
                         "cybersecurity India", "tech news India">>,
     science       |-> <<"scientific discovery", "space mission",
                         "research breakthrough">>,
     health        |-> <<"health news India", "medical breakthrough",
                         "disease outbreak">>,
     education     |-> <<"JEE NEET 2024", "UPSC exam",
                         "board exam result India", "scholarship India">>,
     environment   |-> <<"climate change India", "cyclone flood India",
                         "environment policy India">>]

NumCats == Len(TopicOrder)
Queries(c) == TOPICS[TopicOrder[c]]

RECURSIVE QueriesBefore(_)
QueriesBefore(c) == IF c <= 1 THEN 0 ELSE QueriesBefore(c - 1) + Len(Queries(c - 1))

TotalQueries == QueriesBefore(NumCats + 1)

\* load_config: 'articles_per_category'
articles_per_category == 4
\* the slice of unique_articles[:4]
DigestCap == 4

UrlOf(a) == Get(a.url, Str(""))

\* the loop over all_articles with seen_urls
RECURSIVE DedupFrom(_, _)
DedupFrom(as, seen_urls) ==
    IF as = <<>> THEN <<>>
    ELSE LET url == UrlOf(Head(as))
         IN  IF TruthyId(url) /\ url.val \notin seen_urls
             THEN <<Head(as)>> \o DedupFrom(Tail(as), seen_urls \cup {url.val})
             ELSE DedupFrom(Tail(as), seen_urls)

\* the test of seen_urls left out
DedupKeepAll(as) == SelectSeq(as, LAMBDA a : TruthyId(UrlOf(a)))

Dedup(as) == DedupFrom(as, {})

\* the slice to the quota left out
CappedOff(unique) == unique

Capped(unique) == Take(unique, DigestCap)

Summaries(as) == [i \in 1..Len(as) |-> create_summary(as[i])]

AnyRaised(items) == \E i \in 1..Len(items) : items[i].raised

\* news_data.get(key, [])
Lookup(data, key) ==
    IF \E i \in 1..Len(data) : data[i].key = key
    THEN data[CHOOSE i \in 1..Len(data) : data[i].key = key].items
    ELSE <<>>

\* sum(len(a) for a in news_data.values())
RECURSIVE Total(_)
Total(data) == IF data = <<>> THEN 0 ELSE Len(Head(data).items) + Total(Tail(data))

\* the test of the total inverted into one that never holds
NoNewsOff(total) == total < 0

\* if total == 0
NoNews(total) == total = 0

---------------------------------------------------------------------------
(* EmailSender.create_email *)

\* the key of load_config's category list, 'business', in place of 'economy'
cat_info_business ==
    <<[key |-> "national",      name |-> "NATIONAL (INDIA)"],
      [key |-> "international", name |-> "INTERNATIONAL"],
      [key |-> "business",      name |-> "ECONOMY & BUSINESS"],
      [key |-> "science",       name |-> "SCIENCE & TECH"],
      [key |-> "education",     name |-> "EDUCATION & EXAMS"],
      [key |-> "environment",   name |-> "ENVIRONMENT"],
      [key |-> "technology",    name |-> "TECHNOLOGY"],
      [key |-> "health",        name |-> "HEALTH"]>>

cat_info ==
    <<[key |-> "national",      name |-> "NATIONAL (INDIA)"],
      [key |-> "international", name |-> "INTERNATIONAL"],
      [key |-> "economy",       name |-> "ECONOMY & BUSINESS"],
      [key |-> "science",       name |-> "SCIENCE & TECH"],
      [key |-> "education",     name |-> "EDUCATION & EXAMS"],
      [key |-> "environment",   name |-> "ENVIRONMENT"],
      [key |-> "technology",    name |-> "TECHNOLOGY"],
      [key |-> "health",        name |-> "HEALTH"]>>

\* the category blocks, in the order of cat_info, empty categories skipped
RECURSIVE Sections(_, _)
Sections(info, data) ==
    IF info = <<>> THEN <<>>
    ELSE LET articles == Lookup(data, Head(info).key)
         IN  (IF articles = <<>> THEN <<>>
              ELSE <<[name |-> Head(info).name, items |-> articles]>>)
             \o Sections(Tail(info), data)

\* total += len(articles), over the categories of cat_info
RECURSIVE SectionsTotal(_)
SectionsTotal(secs) ==
    IF secs = <<>> THEN 0 ELSE Len(Head(secs).items) + SectionsTotal(Tail(secs))

\* len([k for k, v in news_data.items() if v])
NonEmptyCount(data) == Cardinality({i \in 1..Len(data) : data[i].items # <<>>})

create_email(data) ==
    LET secs == Sections(cat_info, data)
    IN  [html_sections   |-> secs,
         html_stories    |-> SectionsTotal(secs),
         html_categories |-> NonEmptyCount(data),
         text_sections   |-> secs,
         text_stories    |-> SectionsTotal(secs)]

NoEmail == [html_sections |-> <<>>, html_stories |-> 0, html_categories |-> 0,
            text_sections |-> <<>>, text_stories |-> 0]

---------------------------------------------------------------------------
(* The answers of the news API *)

MaxHits == 2

Art(u) == [title       |-> Str(<<Run("w", 5), Run("s", 1), Run("w", 4)>>),
           description |-> Str(<<Run("w", 4), Run("s", 2), Run("w", 3)>>),
           source      |-> Obj(Str("Reuters")),
           url         |-> Str(u)]

\* a full page: a removed article, an article without url, six others
RespFull ==
    <<[Art("https://a/0") EXCEPT !.title = Str(Removed)],
      Art("https://a/1"),
      [Art("") EXCEPT !.url = MissingId],
      Art("https://a/2"), Art("https://a/3"), Art("https://a/4"),
      Art("https://a/5"), Art("https://a/6")>>

\* three articles, two unique URLs, and one without title
RespDup ==
    <<Art("https://a/1"),
      [Art("https://a/7") EXCEPT !.source = MissingSrc, !.description = Null],
      Art("https://a/1"),
      [Art("https://a/9") EXCEPT !.title = Missing]>>

\* an article whose source is null
RespNullSource == <<[Art("https://a/8") EXCEPT !.source = NullSrc]>>

Pages == {RespFull, RespDup, RespNullSource}

Outcomes ==
    [kind : FailureKinds \cup {"notok"}, articles : {<<>>}]
    \cup [kind : {"ok"}, articles : Pages \cup {<<>>}]

IsHit(outcome) == search_news(outcome) # <<>>

---------------------------------------------------------------------------
(* main --run-now: NewsAutomator.run, step by step *)

InitPipe ==
    /\ pc = "start"
    /\ cat = 1
    /\ qi = 1
    /\ all_articles = <<>>
    /\ unique_articles = <<>>
    /\ news_data = <<>>
    /\ requests = 0
    /\ hits = 0
    /\ failed = FALSE
    /\ email = NoEmail
    /\ subjectN = 0
    /\ openConns = 0
    /\ connsOpened = 0
    /\ delivered = FALSE
    /\ result = "none"

InitSum ==
    /\ article = [title |-> Missing, description |-> Missing,
                  source |-> MissingSrc, url |-> MissingId]
    /\ summary = NoSummary
    /\ spc = "idle"

InitSched ==
    /\ schedule_time = 0
    /\ now = [day |-> 0, tod |-> 0]
    /\ next_run = [day |-> 0, tod |-> 0]
    /\ lpc = "idle"
    /\ invocations = 0
    /\ crossings = 0
    /\ last_result = "none"
    /\ prev_result = "none"
    /\ last_total = -1
    /\ last_mail = "none"

\* run: news_data = {} and the first category of the loop over TOPICS
StartRun ==
    /\ pc = "start"
    /\ pc' = "category"
    /\ news_data' = <<>>
    /\ cat' = 1
    /\ UNCHANGED <<qi, all_articles, unique_articles, requests, hits, failed,
                   email, subjectN, openConns, connsOpened, delivered, result>>
    /\ UNCHANGED <<sumVars, schedVars>>

\* all_articles = []
BeginCategory ==
    /\ pc = "category"
    /\ all_articles' = <<>>
    /\ qi' = 1
    /\ pc' = "query"
    /\ UNCHANGED <<cat, unique_articles, news_data, requests, hits, failed,
                   email, subjectN, openConns, connsOpened, delivered, result>>
    /\ UNCHANGED <<sumVars, schedVars>>

\* articles = self.fetcher.search_news(query); all_articles.extend(articles)
SearchNews ==
    /\ pc = "query"
    /\ qi <= Len(Queries(cat))
    /\ \E outcome \in Outcomes :
          /\ IsHit(outcome) => hits < MaxHits
          /\ requests' = requests + 1
          /\ all_articles' = all_articles \o search_news(outcome)
          /\ hits' = IF IsHit(outcome) THEN hits + 1 ELSE hits
          /\ failed' = (failed \/ outcome.kind \in FailureKinds)
    /\ qi' = qi + 1
    /\ UNCHANGED <<pc, cat, unique_articles, news_data, email, subjectN,
                   openConns, connsOpened, delivered, result>>
    /\ UNCHANGED <<sumVars, schedVars>>

\* the deduplication, the cap and the summaries of one category; an
\* exception of create_summary leaves run, and main exits with status 1
EndCategory ==
    /\ pc = "query"
    /\ qi > Len(Queries(cat))
    /\ LET unique == Dedup(all_articles)
           items == Summaries(Capped(unique))
       IN  /\ unique_articles' = unique
           /\ IF AnyRaised(items)
              THEN /\ pc' = "exit1"
                   /\ result' = "raised"
                   /\ UNCHANGED <<news_data, cat>>
              ELSE /\ news_data' = Append(news_data,
                                     [key |-> TopicOrder[cat], items |-> items])
                   /\ result' = result
                   /\ IF cat < NumCats
                      THEN pc' = "category" /\ cat' = cat + 1
                      ELSE pc' = "fetched" /\ cat' = cat
    /\ UNCHANGED <<qi, all_articles, requests, hits, failed, email, subjectN,
                   openConns, connsOpened, delivered>>
    /\ UNCHANGED <<sumVars, schedVars>>

\* total == 0: warn and return False
ReturnNoNews ==
    /\ pc = "fetched"
    /\ NoNews(Total(news_data))
    /\ result' = "false"
    /\ pc' = "done"
    /\ UNCHANGED <<cat, qi, all_articles, unique_articles, news_data, requests,
                   hits, failed, email, subjectN, openConns, connsOpened,
                   delivered>>
    /\ UNCHANGED <<sumVars, schedVars>>

\* create_email and the subject line of the call of send
Render ==
    /\ pc = "fetched"
    /\ ~NoNews(Total(news_data))
    /\ email' = create_email(news_data)
    /\ subjectN' = Total(news_data)
    /\ pc' = "send"
    /\ UNCHANGED <<cat, qi, all_articles, unique_articles, news_data, requests,
                   hits, failed, openConns, connsOpened, delivered, result>>
    /\ UNCHANGED <<sumVars, schedVars>>

---------------------------------------------------------------------------
(* EmailSender.send, step by step *)

\* server.quit() as the last statement of a block without with statement
ClosesOnSuccess(exc) == ~exc

\* with smtplib.SMTP(...) as server: __exit__ runs on every way out of the
\* block, sends QUIT and closes the connection in its finally clause
ClosesOnExit(exc) == TRUE

\* __exit__ raises when QUIT is not answered 221; a disconnected server is
\* let pass; any exception makes send return False
QuitAnswers == {"221", "other", "disconnected"}
SendReturns(exc, quit) == ~exc /\ quit # "other"

sendUnchanged == <<cat, qi, all_articles, unique_articles, news_data,
                   requests, hits, failed, email, subjectN>>

\* smtplib.SMTP(server, port): a failed connect leaves no connection
Connect ==
    /\ pc = "send"
    /\ \E ok \in BOOLEAN :
          IF ok
          THEN /\ openConns' = openConns + 1
               /\ connsOpened' = connsOpened + 1
               /\ pc' = "starttls"
               /\ result' = result
          ELSE /\ pc' = "send_returned"
               /\ result' = "false"
               /\ UNCHANGED <<openConns, connsOpened>>
    /\ UNCHANGED <<sendUnchanged, delivered>>
    /\ UNCHANGED <<sumVars, schedVars>>

StartTls ==
    /\ pc = "starttls"
    /\ \E ok \in BOOLEAN : pc' = IF ok THEN "login" ELSE "exit_exc"
    /\ UNCHANGED <<sendUnchanged, openConns, connsOpened, delivered, result>>
    /\ UNCHANGED <<sumVars, schedVars>>

Login ==
    /\ pc = "login"
    /\ \E ok \in BOOLEAN : pc' = IF ok THEN "send_message" ELSE "exit_exc"
    /\ UNCHANGED <<sendUnchanged, openConns, connsOpened, delivered, result>>
    /\ UNCHANGED <<sumVars, schedVars>>

SendMessage ==
    /\ pc = "send_message"
    /\ \E ok \in BOOLEAN :
          /\ pc' = IF ok THEN "exit_ok" ELSE "exit_exc"
          /\ delivered' = ok
    /\ UNCHANGED <<sendUnchanged, openConns, connsOpened, result>>
    /\ UNCHANGED <<sumVars, schedVars>>

\* the end of the with block, and the return of send
ExitWith ==
    /\ pc \in {"exit_ok", "exit_exc"}
    /\ \E quit \in QuitAnswers :
          result' = IF SendReturns(pc = "exit_exc", quit) THEN "true" ELSE "false"
    /\ openConns' = IF ClosesOnExit(pc = "exit_exc") THEN openConns - 1
                    ELSE openConns
    /\ pc' = "send_returned"
    /\ UNCHANGED <<sendUnchanged, connsOpened, delivered>>
    /\ UNCHANGED <<sumVars, schedVars>>

\* run logs and returns what send returned
FinishRun ==
    /\ pc = "send_returned"
    /\ pc' = "done"
    /\ UNCHANGED <<sendUnchanged, openConns, connsOpened, delivered, result>>
    /\ UNCHANGED <<sumVars, schedVars>>

Next ==
    \/ StartRun
    \/ BeginCategory
    \/ SearchNews
    \/ EndCategory
    \/ ReturnNoNews
    \/ Render
    \/ Connect
    \/ StartTls
    \/ Login
    \/ SendMessage
    \/ ExitWith
    \/ FinishRun

Init == InitPipe /\ InitSum /\ InitSched

Spec == Init /\ [][Next]_vars

---------------------------------------------------------------------------
(* The summarizer applied to every raw article of RawArticles *)

InitSummary ==
    /\ InitPipe
    /\ InitSched
    /\ article \in RawArticles
    /\ summary = NoSummary
    /\ spc = "input"

NextSummary == Summarize

SpecSummary == InitSummary /\ [][NextSummary]_vars

---------------------------------------------------------------------------
(* NewsAutomator.run as one step of the scheduler loop *)

\* an environment answers each of the TotalQueries queries of one run
AllAnswer(outcome) == [q \in 1..TotalQueries |-> outcome]
OneAnswers(q, page, rest) ==
    [AllAnswer(rest) EXCEPT ![q] = [kind |-> "ok", articles |-> page]]

Envs ==
    {AllAnswer([kind |-> "ok", articles |-> <<>>]),
     AllAnswer([kind |-> "timeout", articles |-> <<>>]),
     OneAnswers(QueriesBefore(3) + 1, RespDup,
                [kind |-> "notok", articles |-> <<>>]),
     OneAnswers(1, RespFull, [kind |-> "transport", articles |-> <<>>]),
     OneAnswers(TotalQueries, RespNullSource,
                [kind |-> "badjson", articles |-> <<>>])}

RECURSIVE Gather(_, _, _)
Gather(env, c, q) ==
    IF q > Len(Queries(c)) THEN <<>>
    ELSE search_news(env[QueriesBefore(c) + q]) \o Gather(env, c, q + 1)

fetch_all_news(env) ==
    LET items == [c \in 1..NumCats |->
                     Summaries(Capped(Dedup(Gather(env, c, 1))))]
    IN  [raised |-> \E c \in 1..NumCats : AnyRaised(items[c]),
         data   |-> [c \in 1..NumCats |->
                        [key |-> TopicOrder[c], items |-> items[c]]]]

\* what the SMTP server does to one send: "sent", or the step that fails
MailOutcomes == {"sent", "connect", "starttls", "login", "send_message", "quit"}

send(mail) == mail = "sent"

\* send without its except clause
run_propagating(env, mail) ==
    LET fetched == fetch_all_news(env)
    IN  IF fetched.raised THEN "raised"
        ELSE IF NoNews(Total(fetched.data)) THEN "false"
        ELSE IF send(mail) THEN "true" ELSE "raised"

run(env, mail) ==
    LET fetched == fetch_all_news(env)
    IN  IF fetched.raised THEN "raised"
        ELSE IF NoNews(Total(fetched.data)) THEN "false"
        ELSE IF send(mail) THEN "true" ELSE "false"

\* the runs of the scheduler loop, tabulated over Envs and MailOutcomes
Digests == [env \in Envs |-> fetch_all_news(env)]
RunResults == [env \in Envs, mail \in MailOutcomes |-> run(env, mail)]

---------------------------------------------------------------------------
(* NewsAutomator.scheduler: the job registry of schedule and the loop *)

\* the clock counts polls of 30 s; a day of the model has DayLen of them
DayLen == 4
MaxDays == 2
MaxRunPolls == 1

Before(a, b) == a.day < b.day \/ (a.day = b.day /\ a.tod < b.tod)

Later(t, k) == [day |-> t.day + ((t.tod + k) \div DayLen),
                tod |-> (t.tod + k) % DayLen]

Horizon == [day |-> MaxDays, tod |-> DayLen - 1]

\* schedule: every().day.at(T) sets next_run to the first T after t, both
\* when the job is registered and after each run
schedule_next_run(t, T) ==
    IF T > t.tod THEN [day |-> t.day, tod |-> T]
    ELSE [day |-> t.day + 1, tod |-> T]

\* self.run() in the loop, in the place of schedule.run_pending()
run_on_every_poll(t, next) == TRUE

\* schedule.run_pending: the job runs when its next_run is not in the future
should_run(t, next) == ~Before(t, next)

\* the clock reached the trigger time on its way from a to b
Reached(a, b, T) ==
    \E d \in {a.day, b.day} :
        LET trig == [day |-> d, tod |-> T]
        IN  Before(a, trig) /\ ~Before(b, trig)

InitScheduler ==
    /\ InitPipe
    /\ InitSum
    /\ schedule_time \in 0..(DayLen - 1)
    /\ now \in [day : {0}, tod : 0..(DayLen - 1)]
    /\ next_run = [day |-> 0, tod |-> 0]
    /\ lpc = "start"
    /\ invocations = 0
    /\ crossings = 0
    /\ last_result = "none"
    /\ prev_result = "none"
    /\ last_total = -1
    /\ last_mail = "none"

\* schedule.every().day.at(schedule_time).do(self.run)
Register ==
    /\ lpc = "start"
    /\ next_run' = schedule_next_run(now, schedule_time)
    /\ lpc' = "poll"
    /\ UNCHANGED <<schedule_time, now, invocations, crossings, last_result,
                   prev_result, last_total, last_mail>>
    /\ UNCHANGED <<pipeVars, sumVars>>

\* schedule.run_pending() when the job is due: run is called on this thread;
\* an exception of run leaves run_pending and the loop, and main exits
RunJob ==
    /\ lpc = "poll"
    /\ should_run(now, next_run)
    /\ \E env \in Envs, mail \in MailOutcomes, took \in 0..MaxRunPolls :
          LET outcome == RunResults[env, mail]
              fetched == Digests[env]
              end     == Later(now, took)
          IN  /\ ~Before(Horizon, end)
              /\ now' = end
              /\ crossings' = IF Reached(now, end, schedule_time)
                              THEN crossings + 1 ELSE crossings
              /\ invocations' = invocations + 1
              /\ last_result' = outcome
              /\ prev_result' = last_result
              /\ last_total' = IF fetched.raised THEN -1 ELSE Total(fetched.data)
              /\ last_mail' = IF fetched.raised \/ Total(fetched.data) = 0
                              THEN "none" ELSE mail
              /\ IF outcome = "raised"
                 THEN lpc' = "exit1" /\ next_run' = next_run
                 ELSE /\ lpc' = "sleep"
                      /\ next_run' = schedule_next_run(end, schedule_time)
    /\ UNCHANGED schedule_time
    /\ UNCHANGED <<pipeVars, sumVars>>

\* schedule.run_pending() when the job is not due
PollIdle ==
    /\ lpc = "poll"
    /\ ~should_run(now, next_run)
    /\ lpc' = "sleep"
    /\ UNCHANGED <<schedule_time, now, next_run, invocations, crossings,
                   last_result, prev_result, last_total, last_mail>>
    /\ UNCHANGED <<pipeVars, sumVars>>

\* time.sleep(30)
Sleep ==
    /\ lpc = "sleep"
    /\ Before(now, Horizon)
    /\ now' = Later(now, 1)
    /\ crossings' = IF Reached(now, Later(now, 1), schedule_time)
                    THEN crossings + 1 ELSE crossings
    /\ lpc' = "poll"
    /\ UNCHANGED <<schedule_time, next_run, invocations, last_result,
                   prev_result, last_total, last_mail>>
    /\ UNCHANGED <<pipeVars, sumVars>>

NextScheduler ==
    \/ Register
    \/ RunJob
    \/ PollIdle
    \/ Sleep

\* the loop is one thread that never blocks: whatever step is possible is
\* eventually taken
SpecScheduler ==
    InitScheduler /\ [][NextScheduler]_vars /\ WF_vars(NextScheduler)

---------------------------------------------------------------------------
(* Properties *)

DigestBuilt == Len(news_data) = NumCats
InSend == pc \in {"starttls", "login", "send_message", "exit_ok", "exit_exc"}
Rendered == pc \in {"send", "send_returned"} \/ InSend
               \/ (pc = "done" /\ subjectN > 0)

\* C1: when the digest built by fetch_all_news holds no article at all, run
\* does not render or send anything (no SMTP connection is ever opened), does
\* not raise, and returns False.
C1_NoNewsNoSend ==
    (DigestBuilt /\ Total(news_data) = 0)
        => /\ pc \in {"fetched", "done"}
           /\ connsOpened = 0 /\ openConns = 0 /\ ~delivered
           /\ email = NoEmail
           /\ pc = "done" => result = "false"

C1_Witness ==
    /\ pc = "done"
    /\ DigestBuilt
    /\ Total(news_data) = 0
    /\ requests = TotalQueries
    /\ result = "false"

\* the calls of search_news made so far, from the position in the loops
CallsMade ==
    IF pc = "start" THEN 0
    ELSE IF pc = "category" THEN QueriesBefore(cat)
    ELSE QueriesBefore(cat) + qi - 1

\* C2: search_news issues exactly one request per call, without retry, and
\* swallows every failure by returning [], so that once a search has failed,
\* fetch_all_news still issues every query of every category: when the loop
\* over the queries is over, in whatever way, TotalQueries requests were made.
C2_EveryQueryIssued ==
    /\ requests = CallsMade
    /\ (failed /\ pc \notin {"start", "category", "query"})
          => requests = TotalQueries

\* the i-th article carries a URL that no earlier article carries
FirstOccurrence(as, i) ==
    /\ TruthyId(UrlOf(as[i]))
    /\ \A j \in 1..(i - 1) : UrlOf(as[j]) # UrlOf(as[i])

RECURSIVE FirstOccurrencesFrom(_, _)
FirstOccurrencesFrom(as, i) ==
    IF i > Len(as) THEN <<>>
    ELSE (IF FirstOccurrence(as, i) THEN <<as[i]>> ELSE <<>>)
         \o FirstOccurrencesFrom(as, i + 1)

DistinctUrls(items) ==
    \A i, j \in 1..Len(items) : i # j => items[i].url # items[j].url

\* C3: the deduplication keeps, of the articles accumulated for a category,
\* exactly the first occurrence of each URL, in their order; no two summaries
\* of one category of the digest share a URL.
C3_FirstOccurrencesKept ==
    /\ pc # "query" => unique_articles = FirstOccurrencesFrom(all_articles, 1)
    /\ \A c \in 1..Len(news_data) : DistinctUrls(news_data[c].items)

\* a URL is repeated among the accumulated articles, and one URL is in the
\* lists of two categories
C3_Witness ==
    /\ pc = "fetched"
    /\ \E i, j \in 1..Len(all_articles) :
          i < j /\ TruthyId(UrlOf(all_articles[i]))
                /\ UrlOf(all_articles[i]) = UrlOf(all_articles[j])
    /\ Len(unique_articles) >= 2
    /\ \E c, d \in 1..Len(news_data) :
          /\ c # d
          /\ \E i \in 1..Len(news_data[c].items),
                j \in 1..Len(news_data[d].items) :
                news_data[c].items[i].url = news_data[d].items[j].url

\* C4: no category of the digest, and no category block of the email, holds
\* more articles than the quota articles_per_category.
C4_QuotaRespected ==
    /\ \A c \in 1..Len(news_data) :
          Len(news_data[c].items) <= articles_per_category
    /\ \A k \in 1..Len(email.html_sections) :
          Len(email.html_sections[k].items) <= articles_per_category
    /\ \A k \in 1..Len(email.text_sections) :
          Len(email.text_sections[k].items) <= articles_per_category

\* more unique articles than the quota were fetched, and the block rendered
\* for the category is full
C4_Witness ==
    /\ pc = "done"
    /\ Len(unique_articles) > articles_per_category
    /\ \E k \in 1..Len(email.html_sections) :
          Len(email.html_sections[k].items) = articles_per_category

\* C7: send opens at most one SMTP connection, and a connection is open
\* only inside the with block: it is closed when send returns, on every
\* path.
C7_ConnectionClosed ==
    /\ connsOpened <= 1
    /\ openConns <= 1
    /\ openConns > 0 => InSend

\* send returned after a failure inside the with block
C7_Witness ==
    /\ pc = "send_returned"
    /\ connsOpened = 1
    /\ openConns = 0
    /\ ~delivered
    /\ result = "false"

\* C10: the story total of the footers (HTML and text) is the total of the
\* digest, which is the N of the subject line; the category count of the
\* footer is the number of category blocks; every non-empty category of the
\* digest has its block, with all its articles.
C10_FooterMatchesDigest ==
    Rendered =>
        /\ email.html_stories = Total(news_data)
        /\ email.text_stories = Total(news_data)
        /\ subjectN = Total(news_data)
        /\ email.html_categories = Len(email.html_sections)
        /\ \A c \in 1..Len(news_data) :
              news_data[c].items # <<>>
                  => \E k \in 1..Len(email.html_sections) :
                        email.html_sections[k].items = news_data[c].items

C10_Witness ==
    /\ pc = "done"
    /\ result = "true"
    /\ Lookup(news_data, "economy") # <<>>
    /\ email.html_categories >= 2

\* C8 as stated: every summary has a title of at most 100 characters and a
\* summary of at most 150 characters, the ellipsis marker included.
C8_Original ==
    (spc = "done" /\ ~summary.raised)
        => /\ TextLen(summary.title) <= TitleMaxLen
           /\ TextLen(summary.summary) <= SummaryMaxLen

\* C8, amended: every summary has a title of at most 100 characters and a
\* summary of at most 150 characters plus the 3 characters of the ellipsis
\* marker.
C8_Amended ==
    (spc = "done" /\ ~summary.raised)
        => /\ TextLen(summary.title) <= TitleMaxLen
           /\ TextLen(summary.summary) <= SummaryMaxLen + TextLen(Ellipsis)

\* a title cut to 100 characters, and a summary of 153
C8_Witness ==
    /\ spc = "done"
    /\ ~summary.raised
    /\ TextLen(article.title.val) > TitleMaxLen
    /\ TextLen(summary.title) = TitleMaxLen
    /\ TextLen(summary.summary) = SummaryMaxLen + TextLen(Ellipsis)

Absent(field) == field.tag \in {"missing", "null"}

\* C9: create_summary returns a summary, without raising, for every record
\* the fetcher returns, with "No Title", "No details available" and
\* "Unknown" in the place of the missing or null fields.
C9_Total ==
    (spc = "done" /\ PassesFilter(article))
        => /\ ~summary.raised
           /\ Absent(article.description) => summary.summary = NoDetails
           /\ (Absent(article.source) \/ Absent(article.source.name))
                 => summary.source = Unknown

\* C5: the job has invoked run no more often than the clock has reached the
\* trigger time: never before the first time, and exactly as often once the
\* poll that follows is over, however many polls follow on that day.
C5_OneRunPerCrossing ==
    /\ invocations <= crossings
    /\ crossings = 0 => invocations = 0
    /\ lpc = "sleep" => invocations = crossings

\* two polls or more after the only crossing, on the same day
C5_Witness ==
    /\ lpc = "sleep"
    /\ crossings = 1
    /\ invocations = 1
    /\ now.tod >= schedule_time + 2
    /\ next_run.day = now.day + 1

\* a run that sent nothing: no article, or a failure of the SMTP exchange
RunUnsuccessful ==
    /\ invocations' = invocations + 1
    /\ last_total' >= 0
    /\ last_total' = 0 \/ last_mail' # "sent"

\* C6: a run that ends unsuccessfully (no article, or the send fails)
\* returns False to the loop, which goes on polling with the job due at the
\* next trigger time; and if that time is within the days of the model, run
\* is invoked again.
C6_LoopSurvivesFailure ==
    /\ [][RunUnsuccessful =>
            /\ last_result' = "false"
            /\ lpc' = "sleep"
            /\ Before(now', next_run')
            /\ next_run'.tod = schedule_time]_vars
    /\ \A n \in 0..(MaxDays + 1) :
          (/\ lpc = "sleep"
           /\ last_result = "false"
           /\ invocations = n
           /\ ~Before(Horizon, next_run))
              ~> (invocations = n + 1)

\* run was invoked again after a run that returned False
C6_Witness ==
    /\ lpc = "sleep"
    /\ invocations >= 2
    /\ prev_result = "false"

=============================================================================
